---- MODULE Spec2Model ----
(***************************************************************************)
(* Model of openslots/protocols/sas.py: the nibble-wise 16-bit checksum    *)
(* crc, the packed-decimal codec int_to_bcd / bcd_to_int, the monotonic    *)
(* counter SASMeter and the registry SASGame with its secure-enhanced      *)
(* validation number.                                                      *)
(*                                                                         *)
(* Characters are modelled by their ASCII codes and a string by the        *)
(* sequence of its characters.  A call's outcome is a record               *)
(* [kind, val]: kind is "ok" or the name of the Python exception raised,   *)
(* val is the returned byte sequence / character sequence / <<integer>>.   *)
(***************************************************************************)
EXTENDS Integers, Sequences, FiniteSets, TLC

VARIABLES
    value,      \* SASMeter._value of each meter of the registry
    size,       \* SASMeter.__len__() of each meter (serialization width, bytes)
    v_id,       \* SASGame._v_id
    v_seq,      \* SASGame._v_seq
    op,         \* name of the last operation called
    who,        \* the meter the last operation was called on ("none" if none)
    arg,        \* integer arguments (or input bytes) of the last operation
    old,        \* value of meter `who` before the last operation
    ret,        \* outcome of the last operation
    prev,       \* registry operations: op, who, arg and old of the operation before the last one
    crc_b,      \* crc: bytes of the input not yet consumed by the loop
    crc_half,   \* crc: 0 before the low-nibble step of Head(crc_b), 1 before the high one
    seed        \* crc: the accumulator

vars == <<value, size, v_id, v_seq, op, who, arg, old, ret, prev, crc_b, crc_half, seed>>

meterVars == <<value, size>>
gameVars == <<v_id, v_seq>>
crcVars == <<crc_b, crc_half, seed>>

----------------------------------------------------------------------------
(* Bounds of the exploration *)

MaxValue == 120
MaxCrcLen == 2
MaxBcdLen == 2

----------------------------------------------------------------------------
(* Python primitives used by the source *)

Ok(v) == [kind |-> "ok", val |-> v]
Raise(e) == [kind |-> e, val |-> <<>>]

RECURSIVE BitXor(_, _)
BitXor(a, b) ==
    IF a = 0 THEN b
    ELSE IF b = 0 THEN a
    ELSE (((a % 2) + (b % 2)) % 2) + 2 * BitXor(a \div 2, b \div 2)

RECURSIVE BitAnd(_, _)
BitAnd(a, b) ==
    IF a = 0 \/ b = 0 THEN 0
    ELSE ((a % 2) * (b % 2)) + 2 * BitAnd(a \div 2, b \div 2)

RECURSIVE BitOr(_, _)
BitOr(a, b) ==
    IF a = 0 THEN b
    ELSE IF b = 0 THEN a
    ELSE (IF a % 2 = 1 \/ b % 2 = 1 THEN 1 ELSE 0) + 2 * BitOr(a \div 2, b \div 2)

Reverse(s) == [k \in 1..Len(s) |-> s[Len(s) + 1 - k]]

RECURSIVE Sum(_)
Sum(s) == IF s = <<>> THEN 0 ELSE Head(s) + Sum(Tail(s))

RECURSIVE Concat(_)
Concat(ss) == IF ss = <<>> THEN <<>> ELSE Head(ss) \o Concat(Tail(ss))

\* str(n) for n >= 0: the decimal digits, no padding
RECURSIVE Str(_)
Str(n) == IF n < 10 THEN <<48 + n>> ELSE Str(n \div 10) \o <<48 + (n % 10)>>

\* format(n, 'x') for n >= 0: lowercase hexadecimal digits, no padding
HexChr(d) == IF d < 10 THEN 48 + d ELSE 87 + d
RECURSIVE FormatX(_)
FormatX(n) == IF n < 16 THEN <<HexChr(n)>> ELSE FormatX(n \div 16) \o <<HexChr(n % 16)>>

\* s.rjust(w, '0') and '%0wi' % n for n >= 0
RECURSIVE ZeroPad(_, _)
ZeroPad(s, w) == IF Len(s) >= w THEN s ELSE ZeroPad(<<48>> \o s, w)

\* int(s, 16): ValueError on the empty string or a non-hexadecimal character
HexDigit(c) ==
    IF c \in 48..57 THEN c - 48
    ELSE IF c \in 97..102 THEN c - 87
    ELSE IF c \in 65..70 THEN c - 55
    ELSE -1
RECURSIVE HexValue(_)
HexValue(s) == IF s = <<>> THEN 0 ELSE 16 * HexValue(SubSeq(s, 1, Len(s) - 1)) + HexDigit(s[Len(s)])
ParseHex(s) ==
    IF s = <<>> \/ \E k \in 1..Len(s) : HexDigit(s[k]) < 0
    THEN Raise("ValueError")
    ELSE Ok(<<HexValue(s)>>)

\* n >> (8 * k)
RECURSIVE ShiftBytes(_, _)
ShiftBytes(n, k) == IF k <= 0 THEN n ELSE ShiftBytes(n \div 256, k - 1)

\* int.to_bytes(length, byteorder): OverflowError when n is negative or too big
to_bytes(n, length, byteorder) ==
    IF n < 0 \/ ShiftBytes(n, length) # 0
    THEN Raise("OverflowError")
    ELSE Ok([k \in 1..length |->
               IF byteorder = "big"
               THEN ShiftBytes(n, length - k) % 256
               ELSE ShiftBytes(n, k - 1) % 256])

----------------------------------------------------------------------------
(* crc, int_to_bcd, bcd_to_int *)

\* nibble step masking with 0o377 instead of 0o17
NibbleStep_widemask(s, src) == BitXor(s \div 16, BitAnd(BitXor(s, src), 255) * 4225)

\* one nibble step of crc's loop body: q = (seed ^ src) & 0o17;
\* seed = (seed >> 4) ^ (q * 0o10201)
NibbleStep(s, src) == BitXor(s \div 16, BitAnd(BitXor(s, src), 15) * 4225)

RECURSIVE crc_loop(_, _)
crc_loop(b, s) ==
    IF b = <<>> THEN s
    ELSE crc_loop(Tail(b), NibbleStep(NibbleStep(s, Head(b)), Head(b) \div 16))

crc(b, s) == to_bytes(crc_loop(b, s), 2, "little")

\* int_to_bcd packing the binary value: i.to_bytes(length, 'big')
int_to_bcd_decimal(i, length) ==
    IF i < 0 THEN Raise("ValueError")
    ELSE IF length < 0 THEN Raise("ValueError")
    ELSE to_bytes(i, length, "big")

int_to_bcd(i, length) ==
    IF i < 0 THEN Raise("ValueError")
    ELSE IF length < 0 THEN Raise("ValueError")
    ELSE LET h == ParseHex(Str(i))
         IN  IF h.kind # "ok" THEN h ELSE to_bytes(h.val[1], length, "big")

bcd_to_int(x) == ParseHex(Concat([k \in 1..Len(x) |-> FormatX(x[k])]))

----------------------------------------------------------------------------
(* SASMeter *)

\* value.setter without the comparison: self._value = n
value_setter_assign(cur, n) == n

\* value.setter with the comparison turned round: n if n < self._value
value_setter_flipped(cur, n) == IF n < cur THEN n ELSE cur

\* value.setter: self._value = n if n > self._value else self._value
value_setter(cur, n) == IF n > cur THEN n ELSE cur

\* value.deleter, reached through clear()
value_deleter == 0

\* __iadd__ adding n to _value directly, without the sign test and the setter
iadd_raw(cur, n) == cur + n

\* __iadd__: self.value += n if n > 0 else 0   (the assignment goes through the setter)
iadd(cur, n) == value_setter(cur, cur + (IF n > 0 THEN n ELSE 0))

\* __bytes__ passing the width in digits instead of bytes
meter_bytes_digits(v, sz) == int_to_bcd(v, 2 * sz)

\* __bytes__: int_to_bcd(self.value, self.__len__())
meter_bytes(v, sz) == int_to_bcd(v, sz)

----------------------------------------------------------------------------
(* SASGame.SE_validation_number, line by line *)

\* a: v_seq then v_id, 3 little-endian bytes each
SE_a(seq, id) ==
    LET s == to_bytes(seq, 3, "little")
        i == to_bytes(id, 3, "little")
    IN  IF s.kind # "ok" THEN s
        ELSE IF i.kind # "ok" THEN i
        ELSE Ok(s.val \o i.val)

\* b: the XOR wiring (a[k] of the source is a[k + 1] here)
SE_b(a) ==
    << a[1], a[2], BitXor(a[3], a[1]), BitXor(a[4], a[2]),
       BitXor(a[5], a[1]), BitXor(a[6], a[2]) >>

\* c: the three checksums, concatenated
SE_c(b) ==
    LET c1 == crc(SubSeq(b, 1, 2), 0)
        c2 == crc(SubSeq(b, 3, 4), 0)
        c3 == crc(SubSeq(b, 5, 6), 0)
    IN  IF c1.kind # "ok" THEN c1
        ELSE IF c2.kind # "ok" THEN c2
        ELSE IF c3.kind # "ok" THEN c3
        ELSE Ok(c1.val \o c2.val \o c3.val)

\* n: n[0] from c[3:], n[1] from c[:3], each byte i shifted left by 8 * i
RECURSIVE LittleEndian(_)
LittleEndian(bs) == IF bs = <<>> THEN 0 ELSE Head(bs) + 256 * LittleEndian(Tail(bs))

SE_n(c) == << LittleEndian(SubSeq(c, 4, Len(c))), LittleEndian(SubSeq(c, 1, 3)) >>

\* v = [int(x) for x in '%08i%08i' % tuple(n)]
SE_digits(n) ==
    LET txt == ZeroPad(Str(n[1]), 8) \o ZeroPad(Str(n[2]), 8)
    IN  [k \in 1..Len(txt) |-> txt[k] - 48]

\* check digit shifted by two bits instead of one
CheckDigit_shift2(d, total) == BitOr(d, (total % 5) * 4)

\* check digit taken modulo 10 instead of 5
CheckDigit_mod10(d, total) == BitOr(d, (total % 10) * 2)

\* the right-hand side of  v[7] |= (sum(v[:8]) % 5) << 1  (and of the v[15] line)
CheckDigit(d, total) == BitOr(d, (total % 5) * 2)

\* v after the first reverse and the two check-digit lines (before the second reverse)
SE_checked(v) ==
    LET r  == Reverse(v)
        r1 == [r EXCEPT ![8] = CheckDigit(r[8], Sum(SubSeq(r, 1, 8)))]
    IN  [r1 EXCEPT ![16] = CheckDigit(r1[16], Sum(SubSeq(r1, 9, Len(r1))))]

\* '00' + ''.join([str(x) for x in v]) after the second reverse
SE_join(r) ==
    LET v == Reverse(r)
    IN  <<48, 48>> \o Concat([k \in 1..Len(v) |-> Str(v[k])])

\* the list v of the source right after the check-digit lines, for in-range counters
SE_v(seq, id) == SE_checked(SE_digits(SE_n(SE_c(SE_b(SE_a(seq, id).val)).val)))

SE_validation_number(seq, id) ==
    LET a == SE_a(seq, id)
    IN  IF a.kind # "ok" THEN a
        ELSE LET c == SE_c(SE_b(a.val))
             IN  IF c.kind # "ok" THEN c
                 ELSE Ok(SE_join(SE_checked(SE_digits(SE_n(c.val)))))

----------------------------------------------------------------------------
(* Inputs explored *)

\* names of the catalog _602_meters
MeterNames == {"coin_in", "coin_out"}

\* catalogs handed to SASGame(meters): the default _602_meters (4 bytes each)
\* and one with narrow meters
_602_meters == [m \in MeterNames |-> 4]
NarrowMeters == [m \in MeterNames |-> IF m = "coin_in" THEN 1 ELSE 2]
Catalogs == {_602_meters, NarrowMeters}

SetInputs == {-1, 0, 7, 99, 100}
Deltas == {-3, 0, 50}
GameDeltas == {50}

ValidationInputs == {-1, 0, 1, 2, 3, 5, 255, 256, 65535, 16777215, 16777216}

\* counters tried when looking for a pair with a given outcome
ProbeInputs == ValidationInputs \cup (0..15)

IntInputs == {-1, 0, 5, 9, 10, 12, 99, 100, 255, 9999, 10000}
LengthInputs == {-1, 0, 1, 2}
BcdBytes == {0, 1, 5, 9, 10, 16, 18, 153, 255}

CrcBytes == {0, 1, 15, 16, 255}
CrcSeeds == {0, 1, 4225, 32768, 65535}

SeqsUpTo(S, n) == UNION {[1..k -> S] : k \in 0..n}

----------------------------------------------------------------------------
(* State machine *)

\* the record of the last operation, kept as `prev` by the next one
Last == [op |-> op, who |-> who, arg |-> arg, old |-> old]

\* SASGame.__init__ over a catalog; SASMeter.__init__ sets _value = 0
Init ==
    /\ size \in Catalogs
    /\ value = [m \in MeterNames |-> 0]
    /\ v_id = 0
    /\ v_seq = 0
    /\ op = "init"
    /\ who = "none"
    /\ arg = <<>>
    /\ old = 0
    /\ ret = Ok(<<>>)
    /\ prev = [op |-> "none", who |-> "none", arg |-> <<>>, old |-> 0]
    /\ crc_b = <<>>
    /\ crc_half = 0
    /\ seed = 0

\* meter.value = n
Set(m, n) ==
    /\ n <= MaxValue
    /\ value' = [value EXCEPT ![m] = value_setter(value[m], n)]
    /\ op' = "set"
    /\ prev' = Last
    /\ who' = m
    /\ arg' = <<n>>
    /\ old' = value[m]
    /\ ret' = Ok(<<>>)
    /\ UNCHANGED <<size, gameVars, crcVars>>

\* meter += n
Increment(m, n) ==
    /\ value[m] + n <= MaxValue
    /\ value' = [value EXCEPT ![m] = iadd(value[m], n)]
    /\ op' = "increment"
    /\ prev' = Last
    /\ who' = m
    /\ arg' = <<n>>
    /\ old' = value[m]
    /\ ret' = Ok(<<>>)
    /\ UNCHANGED <<size, gameVars, crcVars>>

\* meter.clear()
Clear(m) ==
    /\ value' = [value EXCEPT ![m] = value_deleter]
    /\ op' = "clear"
    /\ prev' = Last
    /\ who' = m
    /\ arg' = <<>>
    /\ old' = value[m]
    /\ ret' = Ok(<<>>)
    /\ UNCHANGED <<size, gameVars, crcVars>>

\* bytes(meter)
Bytes(m) ==
    /\ ret' = meter_bytes(value[m], size[m])
    /\ op' = "bytes"
    /\ prev' = Last
    /\ who' = m
    /\ arg' = <<>>
    /\ old' = value[m]
    /\ UNCHANGED <<meterVars, gameVars, crcVars>>

\* the host assigns the validation sequence: game._v_seq = s
AssignSeq(s) ==
    /\ v_seq' = s
    /\ op' = "assign_seq"
    /\ prev' = Last
    /\ who' = "none"
    /\ arg' = <<s>>
    /\ old' = 0
    /\ ret' = Ok(<<>>)
    /\ UNCHANGED <<meterVars, v_id, crcVars>>

\* the host assigns the validation id: game._v_id = i
AssignId(i) ==
    /\ v_id' = i
    /\ op' = "assign_id"
    /\ prev' = Last
    /\ who' = "none"
    /\ arg' = <<i>>
    /\ old' = 0
    /\ ret' = Ok(<<>>)
    /\ UNCHANGED <<meterVars, v_seq, crcVars>>

\* SE_validation_number advancing the validation sequence as it goes
SEValidationNumber_advance ==
    /\ ret' = SE_validation_number(v_seq, v_id)
    /\ v_seq' = (v_seq + 1) % 16777216
    /\ op' = "SE_validation_number"
    /\ prev' = Last
    /\ who' = "none"
    /\ arg' = <<>>
    /\ old' = 0
    /\ UNCHANGED <<meterVars, v_id, crcVars>>

\* game.SE_validation_number()
SEValidationNumber ==
    /\ ret' = SE_validation_number(v_seq, v_id)
    /\ op' = "SE_validation_number"
    /\ prev' = Last
    /\ who' = "none"
    /\ arg' = <<>>
    /\ old' = 0
    /\ UNCHANGED <<meterVars, gameVars, crcVars>>

\* int_to_bcd(i, length)
CallIntToBcd(i, length) ==
    /\ ret' = int_to_bcd(i, length)
    /\ op' = "int_to_bcd"
    /\ UNCHANGED prev
    /\ who' = "none"
    /\ arg' = <<i, length>>
    /\ old' = 0
    /\ UNCHANGED <<meterVars, gameVars, crcVars>>

\* bcd_to_int(x)
CallBcdToInt(x) ==
    /\ ret' = bcd_to_int(x)
    /\ op' = "bcd_to_int"
    /\ UNCHANGED prev
    /\ who' = "none"
    /\ arg' = x
    /\ old' = 0
    /\ UNCHANGED <<meterVars, gameVars, crcVars>>

\* crc(b, seed) is entered: the loop has consumed nothing yet
CrcCall(b, s) ==
    /\ op # "crc"
    /\ op' = "crc"
    /\ UNCHANGED prev
    /\ who' = "none"
    /\ arg' = <<s>> \o b
    /\ old' = 0
    /\ ret' = Raise("running")
    /\ crc_b' = b
    /\ crc_half' = 0
    /\ seed' = s
    /\ UNCHANGED <<meterVars, gameVars>>

\* first two lines of the loop body: the step on x
CrcLow ==
    /\ op = "crc"
    /\ crc_b # <<>>
    /\ crc_half = 0
    /\ seed' = NibbleStep(seed, Head(crc_b))
    /\ crc_half' = 1
    /\ UNCHANGED <<meterVars, gameVars, op, who, arg, old, ret, prev, crc_b>>

\* last two lines of the loop body: the step on x >> 4, then the next byte
CrcHigh ==
    /\ op = "crc"
    /\ crc_b # <<>>
    /\ crc_half = 1
    /\ seed' = NibbleStep(seed, Head(crc_b) \div 16)
    /\ crc_half' = 0
    /\ crc_b' = Tail(crc_b)
    /\ UNCHANGED <<meterVars, gameVars, op, who, arg, old, ret, prev>>

\* return seed.to_bytes(2, byteorder='little')
CrcReturn ==
    /\ op = "crc"
    /\ crc_b = <<>>
    /\ ret' = to_bytes(seed, 2, "little")
    /\ op' = "crc_done"
    /\ UNCHANGED <<meterVars, gameVars, who, arg, old, prev, crcVars>>

\* the meters of one registry
NextMeter ==
    \/ \E m \in MeterNames, n \in SetInputs : Set(m, n)
    \/ \E m \in MeterNames, n \in Deltas : Increment(m, n)
    \/ \E m \in MeterNames : Clear(m)
    \/ \E m \in MeterNames : Bytes(m)

\* the registry and its validation number
NextGame ==
    \/ \E s \in ValidationInputs : AssignSeq(s)
    \/ \E i \in ValidationInputs : AssignId(i)
    \/ SEValidationNumber
    \/ \E m \in MeterNames, n \in GameDeltas : Increment(m, n)
    \/ \E m \in MeterNames : Clear(m)

\* the codec
NextCodec ==
    \/ \E i \in IntInputs, length \in LengthInputs : CallIntToBcd(i, length)
    \/ \E x \in SeqsUpTo(BcdBytes, MaxBcdLen) : CallBcdToInt(x)

\* the checksum
NextCrc ==
    \/ \E b \in SeqsUpTo(CrcBytes, MaxCrcLen), s \in CrcSeeds : CrcCall(b, s)
    \/ CrcLow
    \/ CrcHigh
    \/ CrcReturn

Next == NextMeter

Spec == Init /\ [][Next]_vars
SpecGame == Init /\ [][NextGame]_vars
SpecCodec == Init /\ [][NextCodec]_vars
SpecCrc == Init /\ [][NextCrc]_vars

----------------------------------------------------------------------------
(* Vocabulary of the properties *)

Max(a, b) == IF a >= b THEN a ELSE b

RECURSIVE NumDigits(_)
NumDigits(n) == IF n < 10 THEN 1 ELSE 1 + NumDigits(n \div 10)

RECURSIVE Pow10(_)
Pow10(k) == IF k <= 0 THEN 1 ELSE 10 * Pow10(k - 1)

\* decimal digit of n of weight 10^k
DecDigit(n, k) == (n \div Pow10(k)) % 10

\* j-th nibble of a byte sequence, most significant first, j = 1 .. 2 * Len(bs)
Nibble(bs, j) ==
    LET byte == bs[(j + 1) \div 2]
    IN  IF j % 2 = 1 THEN byte \div 16 ELSE byte % 16

\* big-endian base-256 value of a byte sequence
RECURSIVE BigEndianValue(_)
BigEndianValue(bs) ==
    IF bs = <<>> THEN 0
    ELSE 256 * BigEndianValue(SubSeq(bs, 1, Len(bs) - 1)) + bs[Len(bs)]

InRange24(n) == n >= 0 /\ n < 16777216

----------------------------------------------------------------------------
(* Properties *)

\* C1: starting from 0, a meter's value is always a non-negative integer; a
\* step that lowers a meter's value is a clear() of that meter and leaves it
\* at exactly 0; set and increment never lower a value and never raise.
C1_MonotonicExceptClear ==
    [][ /\ \A m \in MeterNames : value[m] >= 0 /\ value'[m] >= 0
        /\ \A m \in MeterNames :
               value'[m] < value[m] => (op' = "clear" /\ who' = m /\ value'[m] = 0)
        /\ op' \in {"set", "increment"} => ret'.kind = "ok" ]_vars

\* a clear() has just taken a positive meter down to 0
C1_Witness == op = "clear" /\ old > 0 /\ value[who] = 0

\* C3 as stated: after set(d1) then set(d2) on the same meter, in either
\* order of two non-negative arguments, the value is the larger argument,
\* whatever the meter held before.
C3_Original ==
    (op = "set" /\ prev.op = "set" /\ prev.who = who
        /\ arg[1] >= 0 /\ prev.arg[1] >= 0)
    => value[who] = Max(prev.arg[1], arg[1])

\* C3 amended: after two consecutive sets of non-negative arguments on the
\* same meter, in either order, the value is the largest of the value held
\* before the two calls and the larger argument.
C3_SetTwice ==
    (op = "set" /\ prev.op = "set" /\ prev.who = who
        /\ arg[1] >= 0 /\ prev.arg[1] >= 0)
    => value[who] = Max(prev.old, Max(prev.arg[1], arg[1]))

\* set(d2) then set(d1) with d1 < d2 on a meter that held less than d1: d2 stays
C3_Witness ==
    /\ op = "set" /\ prev.op = "set" /\ prev.who = who
    /\ arg[1] >= 0 /\ arg[1] < prev.arg[1] /\ prev.old < arg[1]
    /\ value[who] = prev.arg[1]

\* C5: bytes(meter) leaves the meter's value unchanged; for a width size >= 1
\* and value v >= 0 with at most 2*size decimal digits it returns size bytes
\* whose nibbles are the digits of v left-padded with zeros, and with more
\* digits it fails with OverflowError.
C5_Serialize ==
    [][ op' = "bytes" =>
          LET v  == value[who']
              sz == size[who']
          IN  /\ value' = value
              /\ (sz >= 1 /\ v >= 0) =>
                    IF NumDigits(v) <= 2 * sz
                    THEN /\ ret'.kind = "ok"
                         /\ Len(ret'.val) = sz
                         /\ \A j \in 1..(2 * sz) : Nibble(ret'.val, j) = DecDigit(v, 2 * sz - j)
                    ELSE ret'.kind = "OverflowError" ]_vars

\* a one-byte meter holding three digits has just failed to serialize
C5_Witness ==
    /\ op = "bytes" /\ ret.kind = "OverflowError"
    /\ size[who] = 1 /\ value[who] >= 100 /\ value[who] = old

\* C8: meter += delta ends with value v + delta when delta > 0 and v when
\* delta <= 0, touches no other meter and never raises, whatever the width.
C8_Increment ==
    [][ op' = "increment" =>
          /\ value'[who'] = (IF arg'[1] > 0 THEN value[who'] + arg'[1] ELSE value[who'])
          /\ \A m \in MeterNames \ {who'} : value'[m] = value[m]
          /\ ret'.kind = "ok" ]_vars

\* a positive increment has just taken a one-byte meter past two digits
C8_Witness ==
    /\ op = "increment" /\ arg[1] > 0 /\ size[who] = 1
    /\ old < 100 /\ value[who] >= 100 /\ value[who] = old + arg[1]

\* C4: bcd_to_int of a non-empty byte sequence is its big-endian base-256 value.
C4_DecodeBigEndian ==
    (op = "bcd_to_int" /\ arg # <<>>) => ret = Ok(<<BigEndianValue(arg)>>)

\* C6 as stated: int_to_bcd fails with the one error kind ValueError when
\* the value is negative, the width is negative or the value has more than
\* 2*width decimal digits, and returns width bytes otherwise.
C6_Original ==
    op = "int_to_bcd" =>
        IF arg[1] < 0 \/ arg[2] < 0 \/ NumDigits(arg[1]) > 2 * arg[2]
        THEN ret.kind = "ValueError"
        ELSE ret.kind = "ok" /\ Len(ret.val) = arg[2]

\* C6 amended: int_to_bcd fails with ValueError when the value or the width
\* is negative; with both non-negative it fails with the other kind
\* OverflowError when the value is positive and has more than 2*width
\* decimal digits; otherwise (value 0 with width 0 included) it returns
\* exactly width bytes.
C6_EncodeErrors ==
    op = "int_to_bcd" =>
        IF arg[1] < 0 \/ arg[2] < 0
        THEN ret.kind = "ValueError"
        ELSE IF arg[1] > 0 /\ NumDigits(arg[1]) > 2 * arg[2]
             THEN ret.kind = "OverflowError"
             ELSE ret.kind = "ok" /\ Len(ret.val) = arg[2]

\* a non-negative value too wide for a non-negative width has just been refused
C6_Witness ==
    /\ op = "int_to_bcd" /\ arg[1] > 0 /\ arg[2] >= 0
    /\ NumDigits(arg[1]) > 2 * arg[2] /\ ret.kind = "OverflowError"

\* C2: with both counters in [0, 2^24), SE_validation_number returns 18
\* characters, all decimal digits, the first two being "00".
C2_EighteenDigits ==
    (op = "SE_validation_number" /\ InRange24(v_seq) /\ InRange24(v_id))
    => /\ ret.kind = "ok"
       /\ Len(ret.val) = 18
       /\ \A k \in 1..Len(ret.val) : ret.val[k] \in 48..57
       /\ ret.val[1] = 48 /\ ret.val[2] = 48

\* a validation number whose leading check digit came out as 9
C2_Witness ==
    /\ op = "SE_validation_number" /\ InRange24(v_seq) /\ InRange24(v_id)
    /\ ret.kind = "ok" /\ ret.val[3] = 57

\* C9 as stated: for a registry just built, some pair of in-range counters
\* the host can assign makes a check-digit line produce a value above 9, so
\* that the string has more than 18 characters.
C9_Original ==
    op = "init" =>
        \E s \in ProbeInputs, i \in ProbeInputs :
            /\ InRange24(s) /\ InRange24(i)
            /\ (SE_v(s, i)[8] > 9 \/ SE_v(s, i)[16] > 9)
            /\ Len(SE_validation_number(s, i).val) > 18

\* C9 amended: for in-range counters the digit a check-digit line ORs into
\* is the leading digit of an 8-digit rendering of a 24-bit number, hence 0
\* or 1, the line's result is at most 9 and the string has 18 characters.
C9_CheckDigitFits ==
    (op = "SE_validation_number" /\ InRange24(v_seq) /\ InRange24(v_id))
    => LET d == SE_digits(SE_n(SE_c(SE_b(SE_a(v_seq, v_id).val)).val))
           r == SE_v(v_seq, v_id)
       IN  /\ Len(d) = 16 /\ d[1] \in {0, 1} /\ d[9] \in {0, 1}
           /\ r[8] <= 9 /\ r[16] <= 9
           /\ Len(ret.val) <= 18

\* a call where the second check-digit line ORed 8 into a leading 1
C9_Witness ==
    /\ op = "SE_validation_number" /\ InRange24(v_seq) /\ InRange24(v_id)
    /\ SE_digits(SE_n(SE_c(SE_b(SE_a(v_seq, v_id).val)).val))[9] = 1
    /\ SE_v(v_seq, v_id)[8] = 9

\* C7: SE_validation_number changes neither the counters nor the meters,
\* whether it returns or fails, and a call right after a call returns the
\* same outcome.
C7_ReadOnly ==
    [][ op' = "SE_validation_number" =>
          /\ v_id' = v_id /\ v_seq' = v_seq
          /\ DOMAIN value' = DOMAIN value /\ value' = value /\ size' = size
          /\ (op = "SE_validation_number" => ret' = ret) ]_vars

\* two calls in a row on a registry with assigned counters and a used meter
C7_Witness ==
    /\ op = "SE_validation_number" /\ prev.op = "SE_validation_number"
    /\ ret.kind = "ok" /\ v_seq > 0 /\ v_id > 0 /\ value["coin_in"] > 0

\* C10: crc's accumulator stays in [0, 65535] after every nibble step, the
\* call returns exactly the two bytes of the accumulator, low byte first,
\* never fails, and returns [0, 0] for seed 0 and all-zero input.
C10_CrcSixteenBits ==
    /\ op \in {"crc", "crc_done"} => seed \in 0..65535
    /\ op = "crc_done" =>
          /\ ret = Ok(<<seed % 256, seed \div 256>>)
          /\ (\A k \in 1..Len(arg) : arg[k] = 0) => ret.val = <<0, 0>>
          /\ ret = crc(Tail(arg), arg[1])

\* a two-byte input has been folded into an accumulator with high bits set
C10_Witness ==
    /\ op = "crc_done" /\ Len(arg) = 3 /\ seed > 4095 /\ ret.kind = "ok"

====
